---- MODULE Spec2Model ----
(***************************************************************************)
(* Model of myrotvorets/create-server: the createServer factory            *)
(* (src/index.mts, and the older src/index.ts), the certificate reloader   *)
(* built by createSecureServer (watchHandler / reloader closures) and the  *)
(* signal handlers installed by setSignalHandlers.                         *)
(*                                                                         *)
(* Platform facts the model relies on (Node.js):                           *)
(*  - setTimeout(f, d) runs f once, not earlier than d time units later;   *)
(*    clearTimeout of a fired or undefined handle does nothing.            *)
(*  - readFile resolves or rejects some time after it was started;         *)
(*    the promise continuations (.then/.catch) run without any timer,      *)
(*    watcher or signal callback in between.                               *)
(*  - fs.watch of a path that does not exist (the empty path) throws.      *)
(*  - server.close() stops accepting and leaves the connections that are   *)
(*    exchanging data alone; server.closeAllConnections() destroys every   *)
(*    connection; server.listening is false after close().                 *)
(*  - setSecureContext / createServer throw on key material the TLS        *)
(*    library rejects, and then leave the active context as it was.        *)
(*  - the TLS library validates options.minVersion and options.maxVersion *)
(*    one at a time (a known protocol name, or undefined for the default); *)
(*    a minimum above the maximum is not detected when the context is      *)
(*    created, every handshake on such a context fails.                    *)
(*  - an FSWatcher whose handle fails closes the handle and emits 'error';  *)
(*    emitting 'error' on an emitter without an 'error' listener throws,   *)
(*    and an exception no one catches terminates the process.              *)
(***************************************************************************)
EXTENDS Integers, Sequences, FiniteSets, TLC

\* ---------------------------------------------------------------- bounds
MaxNotify == 2      \* change notifications delivered to watchHandler
Delay == 1          \* time units in one opts.reloadDelay (resolution of the clock)
MaxAttempts == 1    \* largest opts.reloadAttempts tried
MaxChanges == 1     \* rewrites of the credential files on disk
MaxConns == 1       \* simultaneously open connections

VARIABLES
    api,        \* which createServer is called: "mts" (index.mts) or "ts" (index.ts)
    env,        \* ServerEnvironment: which variables are set (non-empty)
    opts,       \* CreateServerOptions after merging with the defaults
    pc,         \* position of the createServer call
    error,      \* why createServer rejected ("none" while it has not)
    server,     \* "none", "http" or "https": the server object created
    ctx,        \* version of the credentials in the server's secure context, -1: none
    built,      \* makeSecureContext invocations made by createServer itself
    handlers,   \* TRUE once process.on(...) installed the four signal handlers
    watchers,   \* paths with an FSWatcher
    listening,  \* server.listening
    conns,      \* open connections of the server
    disk,       \* version of the credential files on disk
    timeout,    \* the `timeout` variable: 0 (undefined) or the cycle whose debounce timer it holds
    cycles,     \* one record per watchHandler call: its closure (attempts) and its timer
    sinceLast,  \* time since the last watchHandler call, capped at opts.reloadDelay
    lastSig,    \* the signal delivered last, "none" once a connection came or went since
    killed,     \* connections destroyed by the handler of that signal
    repeated,   \* TRUE when that signal was delivered twice in a row
    exited,     \* TRUE once an uncaught exception terminated the process
    watchErrs,  \* calls of opts.errorHandler(err, 'watch')
    pair        \* the servers of two createServer calls made by one process

vars == <<api, env, opts, pc, error, server, ctx, built, handlers, watchers,
          listening, conns, disk, timeout, cycles, sinceLast, lastSig, killed, repeated,
          exited, watchErrs, pair>>

cfgVars == <<api, env, opts>>
srvVars == <<pc, error, server, built, handlers, watchers>>
netVars == <<listening, conns, lastSig, killed, repeated>>
procVars == <<exited, watchErrs, pair>>

\* everything but `pair`: the single createServer call followed in detail
soloVars == <<api, env, opts, pc, error, server, ctx, built, handlers, watchers,
              listening, conns, disk, timeout, cycles, sinceLast, lastSig,
              killed, repeated, exited, watchErrs>>

\* ------------------------------------------------------------ data types
Paths == {"TLS_CERT", "TLS_KEY", "TLS_CA", "TLS_CRL"}

\* the choices of TLS_MIN_VERSION and TLS_MAX_VERSION, lowest first
SecureVersions == <<"TLSv1.2", "TLSv1.3">>

ServerEnvironment ==
    [HTTPS : BOOLEAN, TLS_CERT : BOOLEAN, TLS_CA : BOOLEAN, TLS_CRL : BOOLEAN,
     TLS_MIN_VERSION : {SecureVersions[i] : i \in DOMAIN SecureVersions},
     TLS_MAX_VERSION : {SecureVersions[i] : i \in DOMAIN SecureVersions}]

\* index.ts also accepts the empty string for both bounds
LegacyEnvironment ==
    [HTTPS : BOOLEAN, TLS_CERT : BOOLEAN, TLS_CA : BOOLEAN, TLS_CRL : BOOLEAN,
     TLS_MIN_VERSION : {""} \cup {SecureVersions[i] : i \in DOMAIN SecureVersions},
     TLS_MAX_VERSION : {""} \cup {SecureVersions[i] : i \in DOMAIN SecureVersions}]

\* the bounds makeEnv() yields when the variables are not set
DefaultVersions(a, e) ==
    /\ e.TLS_MIN_VERSION = "TLSv1.3"
    /\ e.TLS_MAX_VERSION = (IF a = "mts" THEN "TLSv1.3" ELSE "")

CreateServerOptions ==
    [listen : BOOLEAN, setSignalHandlers : BOOLEAN, watchCert : BOOLEAN,
     reloadDelay : {Delay}, reloadAttempts : 0..MaxAttempts,
     errorHandler : BOOLEAN]

\* index.ts takes no options: it never listens, installs no handlers, watches nothing
LegacyOptions ==
    [listen |-> FALSE, setSignalHandlers |-> FALSE, watchCert |-> FALSE,
     reloadDelay |-> Delay, reloadAttempts |-> 0, errorHandler |-> FALSE]

GracefulSignals == {"SIGTERM", "SIGINT"}
ImmediateSignals == {"SIGQUIT", "SIGUSR2"}
Signals == GracefulSignals \cup ImmediateSignals

NoBuf == -1

\* how an attempt to build and install a secure context can end: a file read
\* fails, the TLS library rejects the key material, or it is accepted
Outcomes == {"enoent", "invalid", "good"}

Min(a, b) == IF a < b THEN a ELSE b

\* ------------------------------------------------- makeSecureContext
\* The possible ends of an attempt that starts with makeSecureContext(env):
\* readFile(env.TLS_CERT) of an empty path always rejects.
makeSecureContext(e) ==
    IF e.TLS_CERT THEN Outcomes ELSE {"enoent"}

\* minVersion and maxVersion of the options handed to the https server:
\* index.mts copies the variables, index.ts turns '' into undefined
VersionBounds(a, e) ==
    [minVersion |-> IF a = "ts" /\ e.TLS_MIN_VERSION = ""
                    THEN "undefined" ELSE e.TLS_MIN_VERSION,
     maxVersion |-> IF a = "ts" /\ e.TLS_MAX_VERSION = ""
                    THEN "undefined" ELSE e.TLS_MAX_VERSION]

\* ------------------------------------------------- watchers
\* watchers created before the CRL watcher: certificate, key, CA if configured
WatchedBeforeCrl(e) ==
    {"TLS_CERT", "TLS_KEY"} \cup (IF e.TLS_CA THEN {"TLS_CA"} ELSE {})

\* the guard of the CRL watcher tests env.TLS_CERT
WatchesCrl(e) == e.TLS_CERT

\* watch(env.TLS_CRL) of an unset (empty) path throws
WatchThrows(e) == WatchesCrl(e) /\ ~e.TLS_CRL

WatchSet(e) ==
    WatchedBeforeCrl(e) \cup (IF WatchesCrl(e) THEN {"TLS_CRL"} ELSE {})

\* ------------------------------------------------- two calls
Listeners == {1, 2}

\* what a createServer call owns: the server (listening, conns, its secure
\* context ctx), whether setSignalHandlers(server) ran, whether watchers with
\* its watchHandler exist, and the variables of that call's closures:
\* `timeout`, and per watchHandler call a timer and `attempts`. ctx names the
\* options object in place: 0 for the one createSecureServer built, c for the
\* one built by the reloader of the call's c-th notification, -1 for none.
NoListener ==
    [st |-> "none", listening |-> FALSE, conns |-> 0, handlers |-> FALSE,
     watching |-> FALSE, ctx |-> -1, timeout |-> 0, cycles |-> << >>]

\* ------------------------------------------------- initial state
Init ==
    /\ api \in {"mts", "ts"}
    /\ env \in (IF api = "mts" THEN ServerEnvironment ELSE LegacyEnvironment)
    /\ opts \in CreateServerOptions
    /\ api = "ts" => opts = LegacyOptions
    /\ pc = "start"
    /\ error = "none"
    /\ server = "none"
    /\ ctx = -1
    /\ built = 0
    /\ handlers = FALSE
    /\ watchers = {}
    /\ listening = FALSE
    /\ conns = 0
    /\ disk = 0
    /\ timeout = 0
    /\ cycles = << >>
    /\ sinceLast = 0
    /\ lastSig = "none"
    /\ killed = 0
    /\ repeated = FALSE
    /\ exited = FALSE
    /\ watchErrs = 0
    /\ pair = [i \in Listeners |-> NoListener]

\* ------------------------------------------------- createServer (index.mts)
\* variant: the secure branch is taken whatever env.HTTPS says
UsesHttpsAlways(e) == TRUE

\* env.HTTPS selects createSecureServer, otherwise a plain http server
UsesHttps(e) == e.HTTPS

\* variant: the signal handlers are installed before the secure context is built
RejectAfterSetup(reason) ==
    /\ pc' = "rejected"
    /\ error' = reason
    /\ handlers' = opts.setSignalHandlers
    /\ UNCHANGED <<server, ctx, watchers, listening>>

\* the createServer promise rejects; nothing that follows the failing
\* statement has run
Reject(reason) ==
    /\ pc' = "rejected"
    /\ error' = reason
    /\ UNCHANGED <<server, ctx, handlers, watchers, listening>>

\* the tail of createServer once the server object exists: signal handlers,
\* then listen. The port is bound inside listen() and 'listening' (or 'error')
\* is emitted on the next tick, before any signal, timer or watcher callback
\* can run, so `await once(server, 'listening')` is part of the same step;
\* a failed bind makes it reject.
Finish(ok) ==
    /\ handlers' = opts.setSignalHandlers
    /\ IF opts.listen
       THEN IF ok
            THEN /\ listening' = TRUE
                 /\ pc' = "returned"
                 /\ error' = error
            ELSE /\ listening' = FALSE
                 /\ pc' = "rejected"
                 /\ error' = "listen"
       ELSE /\ listening' = listening
            /\ pc' = "returned"
            /\ error' = error

CreateServer ==
    /\ api = "mts"
    /\ pc = "start"
    /\ IF UsesHttps(env)
       THEN /\ pc' = "makeSecureContext"
            /\ built' = built + 1
            /\ UNCHANGED <<error, server, handlers, watchers, listening>>
       ELSE /\ server' = "http"
            /\ \E ok \in BOOLEAN : (opts.listen \/ ok) /\ Finish(ok)
            /\ UNCHANGED <<built, watchers>>
    /\ UNCHANGED <<cfgVars, procVars, ctx, conns, lastSig, killed, repeated, disk, timeout, cycles, sinceLast>>

\* createSecureServer resumes after `await makeSecureContext(env)`
CreateSecureServer ==
    /\ api = "mts"
    /\ pc = "makeSecureContext"
    /\ \E r \in makeSecureContext(env) :
         CASE r = "enoent" -> Reject("read")
           [] r = "invalid" -> Reject("tls")
           [] OTHER ->
                /\ server' = "https"
                /\ ctx' = disk
                /\ IF opts.watchCert /\ WatchThrows(env)
                   THEN /\ watchers' = WatchedBeforeCrl(env)
                        /\ pc' = "rejected"
                        /\ error' = "watch"
                        /\ UNCHANGED <<handlers, listening>>
                   ELSE /\ watchers' = IF opts.watchCert THEN WatchSet(env) ELSE {}
                        /\ \E ok \in BOOLEAN : (opts.listen \/ ok) /\ Finish(ok)
    /\ UNCHANGED <<cfgVars, procVars, built, conns, lastSig, killed, repeated, disk, timeout, cycles, sinceLast>>

\* ------------------------------------------------- createServer (index.ts)
CreateServerLegacy ==
    /\ api = "ts"
    /\ pc = "start"
    /\ IF UsesHttps(env)
       THEN /\ pc' = "makeSecureContext"
            /\ built' = built + 1
            /\ UNCHANGED server
       ELSE /\ pc' = "returned"
            /\ server' = "http"
            /\ UNCHANGED built
    /\ UNCHANGED <<cfgVars, procVars, error, ctx, handlers, watchers, netVars, disk,
                   timeout, cycles, sinceLast>>

\* index.ts resumes after its readFile awaits
CreateHttpsServerLegacy ==
    /\ api = "ts"
    /\ pc = "makeSecureContext"
    /\ \E r \in makeSecureContext(env) :
         IF r = "good"
         THEN /\ server' = "https"
              /\ ctx' = disk
              /\ pc' = "returned"
              /\ UNCHANGED error
         ELSE /\ pc' = "rejected"
              /\ error' = IF r = "enoent" THEN "read" ELSE "tls"
              /\ UNCHANGED <<server, ctx>>
    /\ UNCHANGED <<cfgVars, procVars, built, handlers, watchers, netVars, disk,
                   timeout, cycles, sinceLast>>

\* ------------------------------------------------- watcher errors
\* the 'error' listeners are attached after the last watch() call, to every
\* watcher, and only if opts.errorHandler is given
HasErrorListener == opts.errorHandler /\ error # "watch"

\* the FSWatcher of path w fails: its handle is closed and it emits 'error'.
\* With a listener the error goes to opts.errorHandler(err, 'watch'); without
\* one the emit throws, nothing catches it and the process terminates, taking
\* the server, its connections, the watchers and the timers with it.
WatchError(w) ==
    /\ w \in watchers
    /\ IF HasErrorListener
       THEN /\ watchErrs' = watchErrs + 1
            /\ watchers' = watchers \ {w}
            /\ UNCHANGED <<exited, handlers, netVars, timeout, cycles, sinceLast>>
       ELSE /\ exited' = TRUE
            /\ watchers' = {}
            /\ handlers' = FALSE
            /\ listening' = FALSE
            /\ conns' = 0
            /\ lastSig' = "none"
            /\ killed' = 0
            /\ repeated' = FALSE
            /\ timeout' = 0
            /\ cycles' = << >>
            /\ sinceLast' = 0
            /\ UNCHANGED watchErrs
    /\ UNCHANGED <<cfgVars, pair, pc, error, server, built, ctx, disk>>

\* ------------------------------------------------- timers
Pending == {"debounce", "retry"}

\* variant: the pending debounce timer is left running
clearTimeoutForgotten(cs, t) == cs

\* clearTimeout(timeout): cancels the debounce timer of cycle t if it has not
\* fired; retry timers are never stored in `timeout`, so it cannot reach them
clearTimeout(cs, t) ==
    IF t \in DOMAIN cs /\ cs[t].st = "debounce"
    THEN [cs EXCEPT ![t].st = "cancelled", ![t].timer = 0]
    ELSE cs

\* the closure created by one watchHandler call, with its debounce timer armed;
\* burst numbers the run of notifications that each arrived before the debounce
\* timer of the previous one fired
NewCycle(cs) ==
    [st |-> "debounce",
     attempts |-> opts.reloadAttempts,
     timer |-> opts.reloadDelay,
     buf |-> NoBuf,
     calls |-> 0,
     errs |-> 0,
     fired |-> FALSE,
     waited |-> 0,
     burst |-> IF cs = << >> THEN 1
               ELSE IF cs[Len(cs)].fired THEN cs[Len(cs)].burst + 1
               ELSE cs[Len(cs)].burst]

\* ------------------------------------------------- watchHandler
\* variant: the handle of the new debounce timer is not kept
watchHandlerDropsHandle(w) ==
    /\ w \in watchers
    /\ Len(cycles) < MaxNotify
    /\ cycles' = Append(clearTimeout(cycles, timeout), NewCycle(cycles))
    /\ timeout' = timeout
    /\ sinceLast' = 0
    /\ UNCHANGED <<cfgVars, procVars, srvVars, ctx, netVars, disk>>

\* a change notification from the watcher of path w
watchHandler(w) ==
    /\ w \in watchers
    /\ Len(cycles) < MaxNotify
    /\ cycles' = Append(clearTimeout(cycles, timeout), NewCycle(cycles))
    /\ timeout' = Len(cycles) + 1
    /\ sinceLast' = 0
    /\ UNCHANGED <<cfgVars, procVars, srvVars, ctx, netVars, disk>>

\* ------------------------------------------------- reloader
\* the debounce timer of cycle c fires: reloader() starts makeSecureContext
FireDebounce(c) ==
    /\ cycles[c].st = "debounce"
    /\ cycles[c].timer = 0
    /\ cycles' = [cycles EXCEPT ![c].st = "reading",
                                ![c].calls = @ + 1,
                                ![c].fired = TRUE,
                                ![c].waited = sinceLast]
    /\ UNCHANGED <<cfgVars, procVars, srvVars, ctx, netVars, disk, timeout, sinceLast>>

\* the retry timer of cycle c fires: reloader() starts makeSecureContext
FireRetry(c) ==
    /\ cycles[c].st = "retry"
    /\ cycles[c].timer = 0
    /\ cycles' = [cycles EXCEPT ![c].st = "reading", ![c].calls = @ + 1]
    /\ UNCHANGED <<cfgVars, procVars, srvVars, ctx, netVars, disk, timeout, sinceLast>>

\* the file reads of cycle c's makeSecureContext are served from the disk
ReadFiles(c) ==
    /\ cycles[c].st = "reading"
    /\ cycles' = [cycles EXCEPT ![c].st = "loaded", ![c].buf = disk]
    /\ UNCHANGED <<cfgVars, procVars, srvVars, ctx, netVars, disk, timeout, sinceLast>>

\* variant: the built options are never handed to the server
ResolvedWithoutSwap(c) ==
    /\ ctx' = ctx
    /\ cycles' = [cycles EXCEPT ![c].st = "applied", ![c].buf = NoBuf]

\* .then: server.setSecureContext(options) accepted the options
Resolved(c) ==
    /\ ctx' = cycles[c].buf
    /\ cycles' = [cycles EXCEPT ![c].st = "applied", ![c].buf = NoBuf]

\* variant: the counter is not decremented, every failure arms a retry
RejectedRetriesForever(c) ==
    /\ ctx' = ctx
    /\ cycles' = [cycles EXCEPT
           ![c].buf = NoBuf,
           ![c].errs = IF opts.errorHandler THEN @ + 1 ELSE @,
           ![c].st = "retry",
           ![c].timer = opts.reloadDelay]

\* variant: the retry test lets the counter pass zero (attempts >= 0)
RejectedBelowZero(c) ==
    /\ ctx' = ctx
    /\ cycles' = [cycles EXCEPT
           ![c].buf = NoBuf,
           ![c].errs = IF opts.errorHandler THEN @ + 1 ELSE @,
           ![c].attempts = IF @ >= 0 THEN @ - 1 ELSE @,
           ![c].st = IF cycles[c].attempts >= 0 THEN "retry" ELSE "gaveup",
           ![c].timer = IF cycles[c].attempts >= 0 THEN opts.reloadDelay ELSE 0]

\* variant: the retry test is off by one (attempts > 1)
RejectedOneRetryLess(c) ==
    /\ ctx' = ctx
    /\ cycles' = [cycles EXCEPT
           ![c].buf = NoBuf,
           ![c].errs = IF opts.errorHandler THEN @ + 1 ELSE @,
           ![c].attempts = IF @ > 1 THEN @ - 1 ELSE @,
           ![c].st = IF cycles[c].attempts > 1 THEN "retry" ELSE "gaveup",
           ![c].timer = IF cycles[c].attempts > 1 THEN opts.reloadDelay ELSE 0]

\* variant: the options are installed before they are known to be usable
RejectedAfterSwap(c) ==
    /\ ctx' = cycles[c].buf
    /\ cycles' = [cycles EXCEPT
           ![c].buf = NoBuf,
           ![c].errs = IF opts.errorHandler THEN @ + 1 ELSE @,
           ![c].attempts = IF @ > 0 THEN @ - 1 ELSE @,
           ![c].st = IF cycles[c].attempts > 0 THEN "retry" ELSE "gaveup",
           ![c].timer = IF cycles[c].attempts > 0 THEN opts.reloadDelay ELSE 0]

\* .catch: report, then retry while attempts > 0
Rejected(c) ==
    /\ ctx' = ctx
    /\ cycles' = [cycles EXCEPT
           ![c].buf = NoBuf,
           ![c].errs = IF opts.errorHandler THEN @ + 1 ELSE @,
           ![c].attempts = IF @ > 0 THEN @ - 1 ELSE @,
           ![c].st = IF cycles[c].attempts > 0 THEN "retry" ELSE "gaveup",
           ![c].timer = IF cycles[c].attempts > 0 THEN opts.reloadDelay ELSE 0]

\* the promise chain of cycle c's reloader() settles
Settle(c) ==
    /\ cycles[c].st = "loaded"
    /\ \E r \in makeSecureContext(env) :
           IF r = "good" THEN Resolved(c) ELSE Rejected(c)
    /\ UNCHANGED <<cfgVars, procVars, srvVars, netVars, disk, timeout, sinceLast>>

\* ------------------------------------------------- environment
\* one time unit passes; a due timer may fire late but never early
Tick ==
    /\ \E c \in DOMAIN cycles : cycles[c].st \in Pending /\ cycles[c].timer > 0
    /\ cycles' = [c \in DOMAIN cycles |->
                    IF cycles[c].st \in Pending /\ cycles[c].timer > 0
                    THEN [cycles[c] EXCEPT !.timer = @ - 1]
                    ELSE cycles[c]]
    /\ sinceLast' = Min(sinceLast + 1, opts.reloadDelay)
    /\ UNCHANGED <<cfgVars, procVars, srvVars, ctx, netVars, disk, timeout>>

\* the credential files are rewritten
Change ==
    /\ env.HTTPS
    /\ disk < MaxChanges
    /\ disk' = disk + 1
    /\ UNCHANGED <<cfgVars, procVars, srvVars, ctx, netVars, timeout, cycles, sinceLast>>

\* a client connects to the listening server
Connect ==
    /\ listening
    /\ conns < MaxConns
    /\ conns' = conns + 1
    /\ lastSig' = "none"
    /\ killed' = 0
    /\ repeated' = FALSE
    /\ UNCHANGED <<cfgVars, procVars, srvVars, ctx, listening, disk, timeout, cycles, sinceLast>>

\* a connection finishes on its own
Disconnect ==
    /\ conns > 0
    /\ conns' = conns - 1
    /\ lastSig' = "none"
    /\ killed' = 0
    /\ repeated' = FALSE
    /\ UNCHANGED <<cfgVars, procVars, srvVars, ctx, listening, disk, timeout, cycles, sinceLast>>

\* ------------------------------------------------- setSignalHandlers
\* variant: the handler closes every connection without looking at the server
gracefulShutdownForced ==
    /\ listening' = listening
    /\ conns' = 0
    /\ killed' = conns

\* variant: the handler calls server.close() without looking at the server
gracefulShutdownUnconditional ==
    /\ listening' = FALSE
    /\ conns' = conns
    /\ killed' = 0

gracefulShutdown ==
    IF listening
    THEN /\ listening' = FALSE      \* server.close()
         /\ conns' = conns
         /\ killed' = 0
    ELSE /\ listening' = listening  \* server.closeAllConnections()
         /\ conns' = 0
         /\ killed' = conns

\* variant: the immediate signals get the graceful handler
finishGraceful ==
    IF listening
    THEN /\ listening' = FALSE
         /\ conns' = conns
         /\ killed' = 0
    ELSE /\ listening' = listening
         /\ conns' = 0
         /\ killed' = conns

finish ==
    /\ listening' = listening
    /\ conns' = 0                   \* server.closeAllConnections()
    /\ killed' = conns

Signal(sig) ==
    /\ handlers
    /\ IF sig \in GracefulSignals THEN gracefulShutdown ELSE finish
    /\ lastSig' = sig
    /\ repeated' = (lastSig = sig)
    /\ UNCHANGED <<cfgVars, procVars, srvVars, ctx, disk, timeout, cycles, sinceLast>>

\* ------------------------------------------------- two calls in one process
\* The i-th createServer call of the process, from its entry to the settling
\* of its promise (CreateServer and CreateSecureServer in one step). Both
\* calls read the same process.env and are given the same options.
createServerOf(i) ==
    /\ pair[i].st = "none"
    /\ i > 1 => pair[i - 1].st # "none"
    /\ \E r \in (IF UsesHttps(env) THEN makeSecureContext(env) ELSE {"good"}),
          ok \in BOOLEAN :
         /\ opts.listen \/ ok
         /\ pair' = [pair EXCEPT ![i] =
                IF r # "good"
                THEN [@ EXCEPT !.st = "rejected"]
                ELSE IF UsesHttps(env) /\ opts.watchCert /\ WatchThrows(env)
                THEN [@ EXCEPT !.st = "rejected", !.ctx = 0, !.watching = TRUE]
                ELSE [@ EXCEPT
                         !.st = IF opts.listen /\ ~ok THEN "rejected" ELSE "returned",
                         !.ctx = IF UsesHttps(env) THEN 0 ELSE -1,
                         !.watching = UsesHttps(env) /\ opts.watchCert,
                         !.handlers = opts.setSignalHandlers,
                         !.listening = opts.listen /\ ok]]
    /\ UNCHANGED soloVars

\* watchHandler calls made so far by the watchers of both calls
Notifications == Len(pair[1].cycles) + Len(pair[2].cycles)

\* a change notification from a watcher created by call i: its watchHandler
\* closes over the `timeout` of call i. The pair has no clock: how the timers
\* of one call fall between those of the other is open, so a timer is armed
\* with nothing left to wait (timer 0) and fires at any later step.
watchHandlerOf(i) ==
    /\ pair[i].watching
    /\ Notifications < MaxNotify
    /\ pair' = [pair EXCEPT
           ![i].cycles = Append(clearTimeout(@, pair[i].timeout),
                                [st |-> "debounce",
                                 attempts |-> opts.reloadAttempts,
                                 timer |-> 0]),
           ![i].timeout = Len(pair[i].cycles) + 1]
    /\ UNCHANGED soloVars

\* a debounce or retry timer of call i fires: its reloader() starts
reloaderOf(i, c) ==
    /\ pair[i].cycles[c].st \in Pending
    /\ pair[i].cycles[c].timer = 0
    /\ pair' = [pair EXCEPT ![i].cycles[c].st = "reading"]
    /\ UNCHANGED soloVars

\* the promise chain of that reloader() settles: .then installs the options
\* in the server of call i, .catch counts down the `attempts` of its closure
settleOf(i, c) ==
    /\ pair[i].cycles[c].st = "reading"
    /\ \E r \in makeSecureContext(env) :
         pair' = [pair EXCEPT ![i] =
            IF r = "good"
            THEN [@ EXCEPT !.ctx = c, !.cycles[c].st = "applied"]
            ELSE IF @.cycles[c].attempts > 0
            THEN [@ EXCEPT !.cycles[c].st = "retry",
                           !.cycles[c].attempts = @ - 1]
            ELSE [@ EXCEPT !.cycles[c].st = "gaveup"]]
    /\ UNCHANGED soloVars

ConnectTo(i) ==
    /\ pair[i].listening
    /\ pair[i].conns < MaxConns
    /\ pair' = [pair EXCEPT ![i].conns = @ + 1]
    /\ UNCHANGED soloVars

DisconnectFrom(i) ==
    /\ pair[i].conns > 0
    /\ pair' = [pair EXCEPT ![i].conns = @ - 1]
    /\ UNCHANGED soloVars

\* variant: the handlers test the server of the first call (a variable the
\* calls share) instead of their own
gracefulShutdownOfFirst(s) ==
    IF pair[1].listening
    THEN [s EXCEPT !.listening = FALSE]
    ELSE [s EXCEPT !.conns = 0]

\* gracefulShutdown as set up by setSignalHandlers(server) for the server s
gracefulShutdownOf(s) ==
    IF s.listening
    THEN [s EXCEPT !.listening = FALSE]     \* server.close()
    ELSE [s EXCEPT !.conns = 0]             \* server.closeAllConnections()

\* finish as set up by setSignalHandlers(server) for the server s
finishOf(s) == [s EXCEPT !.conns = 0]

\* a signal is delivered to the process: process.on(...) has added one handler
\* per call that installed handlers, and they run one after the other
SignalAll(sig) ==
    /\ \E i \in Listeners : pair[i].handlers
    /\ pair' = [i \in Listeners |->
                  IF ~pair[i].handlers THEN pair[i]
                  ELSE IF sig \in GracefulSignals THEN gracefulShutdownOf(pair[i])
                  ELSE finishOf(pair[i])]
    /\ UNCHANGED soloVars

NextPair ==
    \/ \E i \in Listeners : createServerOf(i)
    \/ \E i \in Listeners : watchHandlerOf(i)
    \/ \E i \in Listeners : \E c \in DOMAIN pair[i].cycles : reloaderOf(i, c)
    \/ \E i \in Listeners : \E c \in DOMAIN pair[i].cycles : settleOf(i, c)
    \/ \E i \in Listeners : ConnectTo(i)
    \/ \E i \in Listeners : DisconnectFrom(i)
    \/ \E sig \in Signals : SignalAll(sig)

\* the options and variables the pair does not read are left at one value
InitPair ==
    /\ Init
    /\ DefaultVersions(api, env)
    /\ api = "mts"
    /\ ~opts.errorHandler
    /\ ~env.TLS_CA

SpecPair == InitPair /\ [][NextPair]_vars

\* ------------------------------------------------- specification
Next ==
    \/ CreateServer
    \/ CreateSecureServer
    \/ CreateServerLegacy
    \/ CreateHttpsServerLegacy
    \/ \E w \in Paths : watchHandler(w)
    \/ \E c \in DOMAIN cycles : FireDebounce(c)
    \/ \E c \in DOMAIN cycles : FireRetry(c)
    \/ \E c \in DOMAIN cycles : ReadFiles(c)
    \/ \E c \in DOMAIN cycles : Settle(c)
    \/ Tick
    \/ Change
    \/ Connect
    \/ Disconnect
    \/ \E sig \in Signals : Signal(sig)
    \/ \E w \in Paths : WatchError(w)

Spec == Init /\ [][Next]_vars

\* The reloader never reads the signal handlers' state and the handlers never
\* read the reloader's, so each is also specified with the other's events
\* absent: the program while no signal is delivered ...
NextReload ==
    \/ CreateServer
    \/ CreateSecureServer
    \/ CreateServerLegacy
    \/ CreateHttpsServerLegacy
    \/ \E w \in Paths : watchHandler(w)
    \/ \E c \in DOMAIN cycles : FireDebounce(c)
    \/ \E c \in DOMAIN cycles : FireRetry(c)
    \/ \E c \in DOMAIN cycles : ReadFiles(c)
    \/ \E c \in DOMAIN cycles : Settle(c)
    \/ Tick
    \/ Change
    \/ Connect
    \/ Disconnect

\* the reloader copies the version bounds and never looks at them: it is
\* specified with the bounds left at their defaults
InitReload == Init /\ DefaultVersions(api, env)

SpecReload == InitReload /\ [][NextReload]_vars

\* ... and the program while no change notification arrives
NextShutdown ==
    \/ CreateServer
    \/ CreateSecureServer
    \/ CreateServerLegacy
    \/ CreateHttpsServerLegacy
    \/ Change
    \/ Connect
    \/ Disconnect
    \/ \E sig \in Signals : Signal(sig)
    \/ \E w \in Paths : WatchError(w)

SpecShutdown == Init /\ [][NextShutdown]_vars

\* The reloader under the scheduling the platform guarantees: time passes, a
\* due timer fires, a started file read completes and a settled promise runs
\* its continuation. Nothing obliges a watcher to notify. The files stay as
\* they are: whether an attempt fails or succeeds is open whatever they hold.
NextLive ==
    \/ CreateServer
    \/ CreateSecureServer
    \/ \E w \in Paths : watchHandler(w)
    \/ \E c \in DOMAIN cycles : FireDebounce(c)
    \/ \E c \in DOMAIN cycles : FireRetry(c)
    \/ \E c \in DOMAIN cycles : ReadFiles(c)
    \/ \E c \in DOMAIN cycles : Settle(c)
    \/ Tick

Fairness ==
    /\ WF_vars(Tick)
    /\ \A c \in 1..MaxNotify :
          /\ WF_vars(c \in DOMAIN cycles /\ FireDebounce(c))
          /\ WF_vars(c \in DOMAIN cycles /\ FireRetry(c))
          /\ WF_vars(c \in DOMAIN cycles /\ ReadFiles(c))
          /\ WF_vars(c \in DOMAIN cycles /\ Settle(c))

InitLive == InitReload /\ api = "mts"

SpecLive == InitLive /\ [][NextLive]_vars /\ Fairness

\* ------------------------------------------------- properties
Bursts == {cycles[c].burst : c \in DOMAIN cycles}
InBurst(b) == {c \in DOMAIN cycles : cycles[c].burst = b}
FiredIn(b) == {c \in InBurst(b) : cycles[c].fired}
DebouncingIn(b) == {c \in InBurst(b) : cycles[c].st = "debounce"}

\* C1: of a burst of notifications, each arriving before the debounce timer of
\* the previous one fired, exactly one debounce timer fires (the others are
\* cancelled, one stays pending until it fires), and it fires no earlier than
\* reloadDelay after the last notification.
C1_OneReloadPerBurst ==
    \A b \in Bursts :
        /\ Cardinality(FiredIn(b)) + Cardinality(DebouncingIn(b)) = 1
        /\ \A c \in FiredIn(b) :
              /\ cycles[c].waited >= opts.reloadDelay
              /\ \A d \in InBurst(b) : d <= c

C1_Witness ==
    \E b \in Bursts :
        /\ Cardinality(InBurst(b)) >= 2
        /\ FiredIn(b) # {}

\* C2 as stated: after a single notification whose attempts all failed, the
\* error callback was called reloadAttempts times.
C2_ErrorCountIsMaximum ==
    (Len(cycles) = 1 /\ cycles[1].st = "gaveup" /\ opts.errorHandler)
        => cycles[1].errs = opts.reloadAttempts

\* C2 amended: after a single notification whose attempts all failed, the
\* builder was invoked reloadAttempts + 1 times (the debounced attempt and
\* reloadAttempts retries) and the error callback, when there is one, was
\* called once per failed attempt, reloadAttempts + 1 times.
C2_ErrorCountIsMaximumPlusOne ==
    (Len(cycles) = 1 /\ cycles[1].st = "gaveup")
        => /\ cycles[1].calls = opts.reloadAttempts + 1
           /\ cycles[1].errs = IF opts.errorHandler
                               THEN opts.reloadAttempts + 1 ELSE 0

C2_Witness ==
    /\ Len(cycles) = 1
    /\ cycles[1].st = "gaveup"
    /\ opts.errorHandler
    /\ opts.reloadAttempts >= 1
    /\ cycles[1].errs >= 2

\* a step in which the reload attempt of cycle c settles with a failure
FailedAttempt(c) ==
    /\ cycles[c].st = "loaded"
    /\ cycles'[c].st \in {"retry", "gaveup"}

\* a step in which the reload attempt of cycle c settles successfully
SucceededAttempt(c) ==
    /\ cycles[c].st = "loaded"
    /\ cycles'[c].st = "applied"

\* C3: a failed reload attempt (read failure or options rejected), the last
\* of its cycle included, changes neither the secure context nor the
\* listening state nor the connections, and does not change the outcome of
\* createServer; it is reported to the error callback only.
C3_FailedReloadLeavesListener ==
    [][\A c \in DOMAIN cycles : FailedAttempt(c) =>
          /\ ctx' = ctx
          /\ server' = server
          /\ listening' = listening
          /\ conns' = conns
          /\ pc' = pc
          /\ error' = error
          /\ cycles'[c].errs = cycles[c].errs + (IF opts.errorHandler THEN 1 ELSE 0)]_vars

C3_Witness ==
    \E c \in DOMAIN cycles :
        /\ cycles[c].st = "gaveup"
        /\ cycles[c].calls >= 2
        /\ listening
        /\ conns > 0
        /\ ctx = 0
        /\ disk = 1

\* C4: when attempt k of a cycle succeeds, the secure context becomes the
\* options that attempt built, and the cycle is over: no timer of it is
\* pending and it never does anything again.
C4_SuccessEndsCycle ==
    [][\A c \in DOMAIN cycles :
          /\ SucceededAttempt(c) =>
                /\ ctx' = cycles[c].buf
                /\ cycles'[c].st = "applied"
                /\ cycles'[c].timer = 0
                /\ cycles'[c].calls = cycles[c].calls
          /\ cycles[c].st = "applied" => cycles'[c] = cycles[c]]_vars

C4_Witness ==
    \E c \in DOMAIN cycles :
        /\ cycles[c].st = "applied"
        /\ cycles[c].calls >= 2
        /\ ctx = 1

\* a step in which watchHandler runs
Notified == Len(cycles') = Len(cycles) + 1

\* C5 as stated: a notification arriving while a retry is scheduled resets the
\* attempt budget: every timer pending after it, the earlier cycle's retry
\* timer included, will start its attempt with the full reloadAttempts budget.
C5_NotificationResetsBudget ==
    [][(Notified /\ \E c \in DOMAIN cycles : cycles[c].st = "retry") =>
          \A c \in DOMAIN cycles' :
              cycles'[c].st \in Pending =>
                  cycles'[c].attempts = opts.reloadAttempts]_vars

\* C6: a graceful signal makes a listening server stop accepting and destroys
\* none of its connections; on a server that is not listening it destroys
\* all connections at once.
C6_GracefulSignal ==
    [][\A sig \in GracefulSignals : Signal(sig) =>
          IF listening
          THEN ~listening' /\ conns' = conns /\ killed' = 0
          ELSE ~listening' /\ conns' = 0 /\ killed' = conns]_vars

C6_Witness ==
    /\ lastSig \in GracefulSignals
    /\ opts.listen
    /\ ~listening
    /\ conns > 0
    /\ killed = 0

\* C7: an immediate signal destroys every open connection, whatever the state
\* of the server and whatever signals came before.
C7_ImmediateSignal ==
    [][\A sig \in ImmediateSignals : Signal(sig) =>
          /\ conns' = 0
          /\ killed' = conns
          /\ listening' = listening]_vars

C7_Witness ==
    /\ lastSig \in ImmediateSignals
    /\ listening
    /\ killed > 0
    /\ conns = 0

\* C8 as stated: delivering the same signal a second time leaves the server
\* and its connections as the first delivery left them.
C8_SecondDeliveryChangesNothing ==
    [][\A sig \in Signals : (Signal(sig) /\ lastSig = sig) =>
          /\ listening' = listening
          /\ conns' = conns]_vars

\* C8 amended: delivering the same signal a second time never closes the
\* server again; a second immediate signal changes nothing, but a second
\* graceful signal finds the server not listening and destroys the
\* connections the first delivery left draining.
C8_SecondDelivery ==
    [][\A sig \in Signals : (Signal(sig) /\ lastSig = sig) =>
          /\ listening' = listening
          /\ sig \in ImmediateSignals => conns' = conns /\ killed' = 0
          /\ sig \in GracefulSignals => conns' = 0 /\ killed' = conns]_vars

C8_Witness ==
    /\ repeated
    /\ lastSig \in GracefulSignals
    /\ killed > 0
    /\ conns = 0

\* C9: with HTTPS disabled no credential file is read (makeSecureContext is
\* never called), no watcher and no timer is created, and the server is a
\* plain http server, whatever the options.
C9_PlainServerReadsNothing ==
    ~env.HTTPS =>
        /\ built = 0
        /\ pc # "makeSecureContext"
        /\ ctx = -1
        /\ server \in {"none", "http"}
        /\ watchers = {}
        /\ cycles = << >>
        /\ timeout = 0

C9_Witness ==
    /\ ~env.HTTPS
    /\ env.TLS_CERT
    /\ opts.watchCert
    /\ pc = "returned"
    /\ server = "http"

\* C10: when the initial secure context cannot be built, createServer rejects
\* and nothing else has happened: no server, nothing listening, no signal
\* handler, no watcher, no timer, and makeSecureContext was called once.
C10_StartupFailureAborts ==
    (pc = "rejected" /\ error \in {"read", "tls"}) =>
        /\ server = "none"
        /\ ctx = -1
        /\ ~listening
        /\ ~handlers
        /\ watchers = {}
        /\ cycles = << >>
        /\ timeout = 0
        /\ built = 1

C10_Witness ==
    /\ pc = "rejected"
    /\ error = "read"
    /\ api = "mts"
    /\ env.TLS_CERT
    /\ opts.watchCert
    /\ opts.listen
    /\ opts.setSignalHandlers

\* C11 as stated: a failing watcher is reported to the error callback with
\* tag "watch" and to nothing else, a failed reload attempt is never reported
\* with tag "watch", and a failing watcher never terminates the process nor
\* touches the listener createServer returned or its connections, with or
\* without an error callback.
C11_WatchFailureReportedNotFatal ==
    [][/\ \A w \in Paths : (WatchError(w) /\ pc = "returned") =>
              /\ ~exited'
              /\ listening' = listening
              /\ conns' = conns
              /\ cycles' = cycles
              /\ opts.errorHandler => watchErrs' = watchErrs + 1
       /\ \A c \in DOMAIN cycles \cap DOMAIN cycles' :
              FailedAttempt(c) => watchErrs' = watchErrs]_vars

\* the paths the configuration names: certificate and key, CA and CRL if set
ConfiguredPaths(e) ==
    {"TLS_CERT", "TLS_KEY"}
        \cup (IF e.TLS_CA THEN {"TLS_CA"} ELSE {})
        \cup (IF e.TLS_CRL THEN {"TLS_CRL"} ELSE {})

\* C12 as stated: with HTTPS and watchCert, creating the watchers never makes
\* createServer fail, and while no watcher has failed the watched paths are
\* exactly the configured ones: certificate, key, CA iff TLS_CA is set, CRL
\* iff TLS_CRL is set.
C12_WatchSetIsConfiguredPaths ==
    (api = "mts" /\ env.HTTPS /\ opts.watchCert) =>
        /\ error # "watch"
        /\ (server = "https" /\ ~exited /\ watchErrs = 0) =>
               watchers = ConfiguredPaths(env)

\* position of a protocol version among the choices; 0 for no explicit bound
Rank(v) ==
    IF \E i \in DOMAIN SecureVersions : SecureVersions[i] = v
    THEN CHOOSE i \in DOMAIN SecureVersions : SecureVersions[i] = v
    ELSE 0

\* both bounds are explicit and the minimum is above the maximum
VersionConflict(o) ==
    /\ Rank(o.minVersion) > 0
    /\ Rank(o.maxVersion) > 0
    /\ Rank(o.minVersion) > Rank(o.maxVersion)

\* C13 as stated: with HTTPS and an explicit minimum protocol version above
\* the explicit maximum, createServer never returns and no server is created.
C13_VersionConflictRejected ==
    (env.HTTPS /\ VersionConflict(VersionBounds(api, env))) =>
        /\ pc # "returned"
        /\ server = "none"
        /\ ~listening

\* a step in which a retry timer of cycle c fires and starts an attempt
RetryFires(c) ==
    /\ cycles[c].st = "retry"
    /\ cycles'[c].st = "reading"

\* C14 as stated: a notification cancels the retry timers of the cycles before
\* it: once a later notification has arrived, no retry timer of an earlier
\* cycle fires, so every attempt that starts belongs to the newest cycle.
C14_NotificationCancelsRetry ==
    [][\A c \in DOMAIN cycles : RetryFires(c) => c = Len(cycles)]_vars

\* the cycles whose reloader() is in flight: makeSecureContext was started
\* and its promise chain has not settled
InFlight == {c \in DOMAIN cycles : cycles[c].st \in {"reading", "loaded"}}

\* C15 as stated: at most one makeSecureContext invocation of the reloader is
\* in flight at any time.
C15_OneAttemptInFlight == Cardinality(InFlight) <= 1

\* the cycles whose debounce timer is pending
Debouncing == {c \in DOMAIN cycles : cycles[c].st = "debounce"}

\* C16: at most one debounce timer is pending, that of the latest
\* notification, and `timeout` holds it; a debounce timer that was pending
\* when the next notification arrived (the two are of one burst) has been
\* cancelled and has started no attempt.
C16_OneDebounceTimer ==
    /\ Cardinality(Debouncing) <= 1
    /\ \A c \in Debouncing : c = Len(cycles) /\ timeout = c
    /\ \A c \in DOMAIN cycles :
          (c < Len(cycles) /\ cycles[c + 1].burst = cycles[c].burst) =>
              /\ cycles[c].st = "cancelled"
              /\ ~cycles[c].fired
              /\ cycles[c].calls = 0

C16_Witness ==
    /\ Len(cycles) >= 2
    /\ cycles[1].st = "cancelled"
    /\ cycles[2].burst = cycles[1].burst
    /\ cycles[2].fired
    /\ cycles[2].st = "applied"

\* the secure context in place was installed by an attempt of a cycle after
\* c: some later cycle has installed one, and no earlier cycle has
InstalledByLater(c) ==
    /\ \E d \in DOMAIN cycles : d > c /\ cycles[d].st = "applied"
    /\ \A d \in DOMAIN cycles : d < c => cycles[d].st # "applied"

\* C17 as stated: the first attempt of a cycle started before every later
\* notification (its debounce timer was not cancelled), the attempts of a
\* later cycle started after that cycle's notification; so the first attempt
\* of a cycle never replaces the newer credentials that an attempt of a later
\* cycle installed.
C17_NewestCredentialsWin ==
    [][\A c \in DOMAIN cycles :
          ~ /\ SucceededAttempt(c)
            /\ cycles[c].calls = 1
            /\ InstalledByLater(c)
            /\ cycles[c].buf < ctx]_vars

\* no debounce timer, no retry timer and no attempt in flight
Quiescent ==
    \A c \in DOMAIN cycles : cycles[c].st \in {"applied", "gaveup", "cancelled"}

\* C18: the retry cycle is bounded (a cycle never makes more than
\* reloadAttempts + 1 attempts), a cycle that gave up never does anything
\* again, and with timers firing and reads completing the reloader ends up
\* quiescent for good once the notifications have stopped.
C18_RetryCycleTerminates ==
    /\ [](\A c \in DOMAIN cycles : cycles[c].calls <= opts.reloadAttempts + 1)
    /\ [][\A c \in DOMAIN cycles :
            cycles[c].st = "gaveup" => cycles'[c] = cycles[c]]_vars
    /\ <>[]Quiescent

C18_Witness ==
    /\ Len(cycles) = 2
    /\ Quiescent
    /\ opts.reloadAttempts >= 1
    /\ cycles[1].st = "gaveup"
    /\ cycles[1].calls = opts.reloadAttempts + 1
    /\ cycles[2].st = "applied"
    /\ cycles[2].calls >= 2

\* a step of the reloader of call i: a notification, a timer firing or a
\* reload result
ReloadStepOf(i) ==
    \/ watchHandlerOf(i)
    \/ \E c \in DOMAIN pair[i].cycles : reloaderOf(i, c)
    \/ \E c \in DOMAIN pair[i].cycles : settleOf(i, c)

\* C19: a notification, timer firing or reload result of one call changes
\* nothing of the other call (its pending timers, remaining attempts, secure
\* context, server); a signal makes each call's handler act on its own server
\* by that server's own listening state: a graceful signal closes it if it
\* listens and destroys its connections if it does not, an immediate signal
\* destroys its connections; a server whose call installed no handler is left
\* alone.
C19_ListenersIndependent ==
    [][/\ \A i \in Listeners : ReloadStepOf(i) =>
              \A j \in Listeners \ {i} : pair'[j] = pair[j]
       /\ \A sig \in Signals : SignalAll(sig) =>
              \A i \in Listeners :
                 /\ pair'[i].ctx = pair[i].ctx
                 /\ pair'[i].timeout = pair[i].timeout
                 /\ pair'[i].cycles = pair[i].cycles
                 /\ IF ~pair[i].handlers
                    THEN pair'[i] = pair[i]
                    ELSE IF sig \in GracefulSignals /\ pair[i].listening
                    THEN ~pair'[i].listening /\ pair'[i].conns = pair[i].conns
                    ELSE /\ pair'[i].listening = pair[i].listening
                         /\ pair'[i].conns = 0]_vars

\* the first server was closed by a graceful signal and still drains a
\* connection, the second was created later and listens; each has had a
\* notification, the first reloaded, the second is about to retry
C19_Witness ==
    /\ pair[1].st = "returned"
    /\ pair[2].st = "returned"
    /\ opts.listen
    /\ ~pair[1].listening
    /\ pair[1].conns > 0
    /\ pair[2].listening
    /\ Len(pair[1].cycles) = 1
    /\ Len(pair[2].cycles) = 1
    /\ pair[1].cycles[1].st = "applied"
    /\ pair[2].cycles[1].st = "retry"
    /\ pair[1].ctx # pair[2].ctx

\* C20: `attempts` counts the retries left. In every cycle it stays within
\* 0..reloadAttempts and the attempts made (calls) never exceed
\* reloadAttempts + 1; a cycle that ended made at least one attempt, one that
\* gave up made reloadAttempts + 1; while a retry timer is armed the failures
\* so far (calls) are at most reloadAttempts and each took one off the
\* counter, so the timer was armed with the counter above 0; with
\* reloadAttempts = 0 no retry timer is ever armed.
C20_BudgetCountsRetries ==
    \A c \in DOMAIN cycles :
        /\ cycles[c].attempts \in 0..opts.reloadAttempts
        /\ cycles[c].calls <= opts.reloadAttempts + 1
        /\ cycles[c].st \in {"applied", "gaveup"} => cycles[c].calls >= 1
        /\ cycles[c].st = "gaveup" =>
               /\ cycles[c].calls = opts.reloadAttempts + 1
               /\ cycles[c].attempts = 0
        /\ cycles[c].st = "retry" =>
               /\ cycles[c].calls \in 1..opts.reloadAttempts
               /\ cycles[c].attempts = opts.reloadAttempts - cycles[c].calls
        /\ opts.reloadAttempts = 0 => cycles[c].st # "retry"

C20_Witness ==
    /\ Len(cycles) = 1
    /\ opts.reloadAttempts >= 1
    /\ cycles[1].st = "retry"
    /\ cycles[1].attempts = 0
    /\ cycles[1].calls = opts.reloadAttempts

====
